---- MODULE Spec2Model ----
(***************************************************************************)
(* Model of src/read_modbus.py: a Modbus RTU poller that asks each         *)
(* configured device for two input registers over one serial port,         *)
(* collects the readings of a cycle and writes them to InfluxDB in one     *)
(* batch.                                                                  *)
(*                                                                         *)
(* Times are in milliseconds.  A byte on the serial line is a record       *)
(* [val, src, cyc]: val is the byte the program sees; src and cyc say      *)
(* which device sent it in answer to the request of which cycle (history   *)
(* the program cannot see, kept to state who answered whom).               *)
(***************************************************************************)
EXTENDS Integers, Sequences, FiniteSets, TLC

\* ---------------------------------------------------------------- bounds
MaxCycles == 2          \* polling cycles explored
Burst == 3              \* bytes a device sends at once when it sends in pieces
MaxFaults == 2          \* device_fault steps explored

\* --------------------------------------------------------- configuration
DEVICE_IDS == <<106, 124, 125, 129>>
FUNCTION_CODE == 4
START_ADDR == 400
NUM_REGISTERS == 2
TIMEOUT == 1000
POLLING_INTERVAL == 5000
DEVICE_PAUSE == 200
COMMAND_PAUSE == 100
RESPONSE_LEN == 9

Devices == {DEVICE_IDS[k] : k \in 1..Len(DEVICE_IDS)}

\* The registers (temperature-raw, humidity-raw) device d holds in cycle c:
\* another pair for every device and every cycle.  The program never
\* branches on these values.
device_regs(d, c) == <<200 + d + c, 4000 + 100 * c + d>>

\* ------------------------------------------------------- integer helpers
\* Bit i of a ^ b, at its place.
XorBit(a, b, i) == (((a \div (2 ^ i)) + (b \div (2 ^ i))) % 2) * (2 ^ i)

\* a ^ b for the 16-bit values of modbus_crc.
Xor(a, b) ==
    (((XorBit(a, b, 0) + XorBit(a, b, 1)) + (XorBit(a, b, 2) + XorBit(a, b, 3)))
     + ((XorBit(a, b, 4) + XorBit(a, b, 5)) + (XorBit(a, b, 6) + XorBit(a, b, 7))))
    + (((XorBit(a, b, 8) + XorBit(a, b, 9)) + (XorBit(a, b, 10) + XorBit(a, b, 11)))
       + ((XorBit(a, b, 12) + XorBit(a, b, 13)) + (XorBit(a, b, 14) + XorBit(a, b, 15))))

\* to_bytes with the two bytes in the other order.
to_bytes_big_swapped(n) == <<n % 256, (n \div 256) % 256>>

\* n.to_bytes(2, 'big') and n.to_bytes(2, 'little')
to_bytes_big(n) == <<(n \div 256) % 256, n % 256>>
to_bytes_little(n) == <<n % 256, (n \div 256) % 256>>

\* int.from_bytes(b, byteorder='big') for a 2-byte slice
from_bytes_big(b) == 256 * b[1] + b[2]

\* ---------------------------------------------------------- modbus_crc
\* The 8 shifts done to the left with the unreflected polynomial 0x8005.
RECURSIVE crc_bits_unreflected(_, _)
crc_bits_unreflected(crc, n) ==
    IF n = 0 THEN crc
    ELSE IF crc >= 32768
         THEN crc_bits_unreflected(Xor((crc * 2) % 65536, 32773), n - 1)
         ELSE crc_bits_unreflected((crc * 2) % 65536, n - 1)

RECURSIVE crc_bits(_, _)
crc_bits(crc, n) ==
    IF n = 0 THEN crc
    ELSE IF crc % 2 = 1
         THEN crc_bits(Xor(crc \div 2, 40961), n - 1)
         ELSE crc_bits(crc \div 2, n - 1)

\* crc_bytes keeping only the low 4 bits of each byte.
RECURSIVE crc_loop_low_nibble(_)
crc_loop_low_nibble(st) ==
    IF st.data = <<>> THEN st.crc
    ELSE crc_loop_low_nibble([crc  |-> crc_bits(Xor(st.crc, Head(st.data) % 16), 8),
                              data |-> Tail(st.data)])

crc_bytes_low_nibble(crc, data) == crc_loop_low_nibble([crc |-> crc, data |-> data])

\* `for pos in data:` on the state of the loop, the accumulator and the
\* bytes not yet taken: one turn of the loop, then the rest of it.
RECURSIVE crc_loop(_)
crc_loop(st) ==
    IF st.data = <<>> THEN st.crc
    ELSE crc_loop([crc  |-> crc_bits(Xor(st.crc, Head(st.data)), 8),
                   data |-> Tail(st.data)])

\* The accumulator after the loop over data, started from crc.
crc_bytes(crc, data) == crc_loop([crc |-> crc, data |-> data])

modbus_crc(data) == to_bytes_little(crc_bytes(65535, data))

\* ----------------------------------------------------- read_modbus_data
\* Lines 94-96 with the configuration as parameters.
encode_request(device_id, function_code, start_addr, num_registers) ==
    LET payload == <<device_id, function_code>>
                   \o to_bytes_big(start_addr) \o to_bytes_big(num_registers)
    IN  payload \o modbus_crc(payload)

build_request(device_id) ==
    encode_request(device_id, FUNCTION_CODE, START_ADDR, NUM_REGISTERS)

\* Physical value raw / den, kept as the exact fraction.
Scaled(raw, den) == [num |-> raw, den |-> den]

Vals(bytes) == [k \in 1..Len(bytes) |-> bytes[k].val]

\* decode_response with the length test off by one (> 9 for >= 9).
decode_response_strict(device_id, response) ==
    IF Len(response) > RESPONSE_LEN
    THEN << [device_id   |-> device_id,
             temperature |-> Scaled(from_bytes_big(SubSeq(Vals(response), 4, 5)), 10),
             humidity    |-> Scaled(from_bytes_big(SubSeq(Vals(response), 6, 7)), 100)] >>
    ELSE <<>>

\* decode_response with data_bytes = response[2:6].
decode_response_shifted(device_id, response) ==
    IF Len(response) >= RESPONSE_LEN
    THEN LET data_bytes == SubSeq(Vals(response), 3, 6)
         IN  << [device_id   |-> device_id,
                 temperature |-> Scaled(from_bytes_big(SubSeq(data_bytes, 1, 2)), 10),
                 humidity    |-> Scaled(from_bytes_big(SubSeq(data_bytes, 3, 4)), 100)] >>
    ELSE <<>>

\* decode_response returning None for a response whose address byte or
\* trailing CRC is wrong.
decode_response_checked(device_id, response) ==
    IF /\ Len(response) >= RESPONSE_LEN
       /\ Vals(response)[1] = device_id
       /\ SubSeq(Vals(response), 8, 9) = modbus_crc(SubSeq(Vals(response), 1, 7))
    THEN << [device_id   |-> device_id,
             temperature |-> Scaled(from_bytes_big(SubSeq(Vals(response), 4, 5)), 10),
             humidity    |-> Scaled(from_bytes_big(SubSeq(Vals(response), 6, 7)), 100)] >>
    ELSE <<>>

\* The part of read_modbus_data after ser.read: <<reading>> or <<>> (None).
decode_response(device_id, response) ==
    IF Len(response) >= RESPONSE_LEN
    THEN LET data_bytes == SubSeq(Vals(response), 4, 7)
             temp_raw   == from_bytes_big(SubSeq(data_bytes, 1, 2))
             humid_raw  == from_bytes_big(SubSeq(data_bytes, 3, 4))
         IN  << [device_id   |-> device_id,
                 temperature |-> Scaled(temp_raw, 10),
                 humidity    |-> Scaled(humid_raw, 100)] >>
    ELSE <<>>

\* ------------------------------------------------ write_batch_to_influxdb
\* build_points taking the time anew for every point.
build_points_stamped_each(data, timestamp) ==
    [k \in 1..(2 * Len(data)) |->
        LET r == data[(k + 1) \div 2]
        IN  [measurement |-> IF k % 2 = 1 THEN "temperature" ELSE "humidity",
             device_id   |-> "modbus_" \o ToString(r.device_id),
             value       |-> IF k % 2 = 1 THEN r.temperature ELSE r.humidity,
             time        |-> timestamp + k]]

\* The list `points` built by the loop: two points per reading, in order.
build_points(data, timestamp) ==
    [k \in 1..(2 * Len(data)) |->
        LET r == data[(k + 1) \div 2]
        IN  [measurement |-> IF k % 2 = 1 THEN "temperature" ELSE "humidity",
             device_id   |-> "modbus_" \o ToString(r.device_id),
             value       |-> IF k % 2 = 1 THEN r.temperature ELSE r.humidity,
             time        |-> timestamp]]

\* write_batch_to_influxdb without the test of lines 133-135.
write_batch_to_influxdb_unchecked(data, timestamp, sink_ok) ==
    [calls   |-> << [record |-> build_points(data, timestamp), ok |-> sink_ok] >>,
     printed |-> IF sink_ok
                 THEN <<"Data written to InfluxDB successfully">>
                 ELSE <<"Failed to write batch data to InfluxDB">>]

\* What one call does: the write_api.write calls it makes (each with the
\* answer of the sink) and the lines it prints.  sink_ok is the sink's answer.
write_batch_to_influxdb(data, timestamp, sink_ok) ==
    IF data = <<>>
    THEN [calls |-> <<>>, printed |-> <<"No sensor data to write to InfluxDB">>]
    ELSE [calls   |-> << [record |-> build_points(data, timestamp), ok |-> sink_ok] >>,
          printed |-> IF sink_ok
                      THEN <<"Data written to InfluxDB successfully">>
                      ELSE <<"Failed to write batch data to InfluxDB">>]

\* ------------------------------------------------------------ the devices
\* The 9-byte answer of device d holding registers regs, sent for cycle c.
device_response(d, regs, c) ==
    LET body  == <<d, FUNCTION_CODE, 2 * NUM_REGISTERS>>
                 \o to_bytes_big(regs[1]) \o to_bytes_big(regs[2])
        frame == body \o modbus_crc(body)
    IN  [k \in 1..Len(frame) |-> [val |-> frame[k], src |-> d, cyc |-> c]]

Min(a, b) == IF a < b THEN a ELSE b

\* The request frame of each device and the answer of each device in each
\* cycle, computed once.
Requests == [d \in Devices |-> build_request(d)]
Answers == [d \in Devices |-> [c \in 1..MaxCycles |-> device_response(d, device_regs(d, c), c)]]

\* ------------------------------------------------------------------ state
VARIABLES
    pc,           \* where main is: open, cycle, write, settle, read, pause,
                  \*   forward, interval, stopped
    ser,          \* the serial port: unopened, open, closed
    idx,          \* position of the for loop in DEVICE_IDS
    sensor_data,  \* the list collected in this cycle
    rx,           \* bytes received by the port and not yet read
    pending,      \* per device, the bytes of its answer it has not sent yet
    cycle,        \* number of the current cycle (0 before the first)
    now,          \* the clock, read from the start of the current cycle
    log,          \* what this cycle did so far, in order (history)
    origin,       \* per element of sensor_data, the response it came from (history)
    prev_forward, \* how the forwarding of the cycle before this one went:
                  \*   none (not called), ok, failed (history)
    sink,         \* the write_api.write calls of this cycle, in order (history)
    outcome,      \* running, interrupted, serial_error
    exit_status,  \* <<>> while running, <<code>> once the process has ended
    stopped_at,   \* pc at the moment the exception that ended main was raised
    faults,       \* number of device_fault steps so far
    arg,          \* the arguments of a function called on its own (see the
                  \*   call_ actions); <<>> in main
    res           \* <<result>> of that call once it has returned, else <<>>

vars == <<pc, ser, idx, sensor_data, rx, pending, cycle, now, log, origin, prev_forward,
          sink, outcome, exit_status, stopped_at, faults, arg, res>>

env_vars == <<rx, pending, faults>>
hist_vars == <<log, origin, prev_forward>>
exit_vars == <<outcome, exit_status, stopped_at>>
call_vars == <<arg, res>>

Event(op, dev, n) == [op |-> op, dev |-> dev, n |-> n]

Init ==
    /\ pc = "open"
    /\ ser = "unopened"
    /\ idx = 1
    /\ sensor_data = <<>>
    /\ rx = <<>>
    /\ pending = [d \in Devices |-> <<>>]
    /\ cycle = 0
    /\ now = 0
    /\ log = <<>>
    /\ origin = <<>>
    /\ prev_forward = "none"
    /\ sink = <<>>
    /\ outcome = "running"
    /\ exit_status = <<>>
    /\ stopped_at = "none"
    /\ faults = 0
    /\ arg = <<>>
    /\ res = <<>>

\* ------------------------------------------------------------------- main
\* with serial.Serial(...) as ser: the port opens.
main_open ==
    /\ UNCHANGED call_vars
    /\ pc = "open"
    /\ ser' = "open"
    /\ pc' = "cycle"
    /\ UNCHANGED <<idx, sensor_data, env_vars, cycle, now, hist_vars, sink, exit_vars>>

\* main_except for a port opened without the with statement: nothing closes it.
main_except_leaks(kind) ==
    /\ UNCHANGED call_vars
    /\ pc' = "stopped"
    /\ stopped_at' = pc
    /\ outcome' = kind
    /\ exit_status' = <<0>>
    /\ UNCHANGED <<ser, idx, sensor_data, env_vars, cycle, now, hist_vars, sink>>

\* Leaving main through one of its except clauses: the with block closes the
\* port if it was open, the handler prints, main returns and the process ends
\* with status 0 (no handler calls sys.exit or re-raises).
main_except(kind) ==
    /\ UNCHANGED call_vars
    /\ pc' = "stopped"
    /\ stopped_at' = pc
    /\ outcome' = kind
    /\ exit_status' = <<0>>
    /\ ser' = IF ser = "open" THEN "closed" ELSE ser
    /\ UNCHANGED <<idx, sensor_data, env_vars, cycle, now, hist_vars, sink>>

\* serial.Serial(...) raises SerialException: the port cannot be opened.
main_open_fails ==
    /\ pc = "open"
    /\ main_except("serial_error")

\* main_cycle with sensor_data = [] before the while loop instead of in it,
\* cleared only after a batch write that succeeded.
main_cycle_keeps_failed ==
    /\ UNCHANGED call_vars
    /\ pc = "cycle"
    /\ cycle < MaxCycles
    /\ cycle' = cycle + 1
    /\ sensor_data' = IF sink # <<>> /\ ~ sink[Len(sink)].ok THEN sensor_data ELSE <<>>
    /\ origin' = <<>>
    /\ log' = << Event("cycle", 0, cycle + 1) >>
    /\ prev_forward' = IF sink = <<>> THEN "none"
                       ELSE IF sink[Len(sink)].ok THEN "ok" ELSE "failed"
    /\ sink' = <<>>
    /\ now' = 0
    /\ idx' = 1
    /\ pc' = "write"
    /\ UNCHANGED <<ser, env_vars, exit_vars>>

\* while True: header, sensor_data = [], start of the for loop.
main_cycle ==
    /\ UNCHANGED call_vars
    /\ pc = "cycle"
    /\ cycle < MaxCycles
    /\ cycle' = cycle + 1
    /\ sensor_data' = <<>>
    /\ origin' = <<>>
    /\ log' = << Event("cycle", 0, cycle + 1) >>
    /\ prev_forward' = IF sink = <<>> THEN "none"
                       ELSE IF sink[Len(sink)].ok THEN "ok" ELSE "failed"
    /\ sink' = <<>>
    /\ now' = 0
    /\ idx' = 1
    /\ pc' = "write"
    /\ UNCHANGED <<ser, env_vars, exit_vars>>

\* ser.write(request): the request goes on the bus; the addressed device
\* prepares its answer, and a device that was still answering an earlier
\* request gives that answer up.
read_modbus_data_write ==
    /\ UNCHANGED call_vars
    /\ pc = "write"
    /\ LET request == Requests[DEVICE_IDS[idx]]
       IN  /\ log' = Append(log, Event("write", request[1], Len(request)))
           /\ pending' = [d \in Devices |->
                            IF d = request[1] THEN Answers[d][cycle] ELSE <<>>]
    /\ pc' = "settle"
    /\ UNCHANGED <<ser, idx, sensor_data, rx, faults, cycle, now, origin, prev_forward, sink, exit_vars>>

\* ser.write raises SerialException.
read_modbus_data_write_fails ==
    /\ pc = "write"
    /\ main_except("serial_error")

\* read_modbus_data_sleep going on to the next request before the read.
read_modbus_data_sleep_pipelined ==
    /\ UNCHANGED call_vars
    /\ pc = "settle"
    /\ now' = now + COMMAND_PAUSE
    /\ log' = Append(log, Event("sleep", DEVICE_IDS[idx], COMMAND_PAUSE))
    /\ IF idx < Len(DEVICE_IDS)
       THEN idx' = idx + 1 /\ pc' = "write"
       ELSE idx' = idx /\ pc' = "read"
    /\ UNCHANGED <<ser, sensor_data, env_vars, cycle, origin, prev_forward, sink, exit_vars>>

\* time.sleep(COMMAND_PAUSE)
read_modbus_data_sleep ==
    /\ UNCHANGED call_vars
    /\ pc = "settle"
    /\ now' = now + COMMAND_PAUSE
    /\ log' = Append(log, Event("sleep", DEVICE_IDS[idx], COMMAND_PAUSE))
    /\ pc' = "read"
    /\ UNCHANGED <<ser, idx, sensor_data, env_vars, cycle, origin, prev_forward, sink, exit_vars>>

\* response = ser.read(9), the decoding, and main's `if result: append`.
\* The read returns 9 bytes as soon as 9 are there; it returns what is there
\* (fewer than 9) when the timeout expires.
read_modbus_data_read ==
    /\ UNCHANGED call_vars
    /\ pc = "read"
    /\ LET n        == Min(RESPONSE_LEN, Len(rx))
           response == SubSeq(rx, 1, n)
           result   == decode_response(DEVICE_IDS[idx], response)
       IN  /\ rx' = SubSeq(rx, n + 1, Len(rx))
           /\ now' = IF n < RESPONSE_LEN THEN now + TIMEOUT ELSE now
           /\ log' = Append(log, Event("read", DEVICE_IDS[idx], n))
           /\ sensor_data' = sensor_data \o result
           /\ origin' = IF result = <<>> THEN origin ELSE Append(origin, response)
    /\ pc' = "pause"
    /\ UNCHANGED <<ser, idx, pending, faults, cycle, sink, prev_forward, exit_vars>>

\* ser.read raises SerialException.
read_modbus_data_read_fails ==
    /\ pc = "read"
    /\ main_except("serial_error")

\* main_device_pause asking the same device again after a NoData.
main_device_pause_retry ==
    /\ UNCHANGED call_vars
    /\ pc = "pause"
    /\ now' = now + DEVICE_PAUSE
    /\ log' = Append(log, Event("sleep", DEVICE_IDS[idx], DEVICE_PAUSE))
    /\ IF log[Len(log)].n < RESPONSE_LEN
       THEN idx' = idx /\ pc' = "write"
       ELSE IF idx < Len(DEVICE_IDS)
            THEN idx' = idx + 1 /\ pc' = "write"
            ELSE idx' = idx /\ pc' = "forward"
    /\ UNCHANGED <<ser, sensor_data, env_vars, cycle, origin, prev_forward, sink, exit_vars>>

\* main_device_pause with the sleep inside `if result:`: no pause after a
\* device that gave no reading.
main_device_pause_on_reading ==
    /\ UNCHANGED call_vars
    /\ pc = "pause"
    /\ IF log[Len(log)].n < RESPONSE_LEN
       THEN UNCHANGED <<now, log>>
       ELSE /\ now' = now + DEVICE_PAUSE
            /\ log' = Append(log, Event("sleep", DEVICE_IDS[idx], DEVICE_PAUSE))
    /\ IF idx < Len(DEVICE_IDS)
       THEN idx' = idx + 1 /\ pc' = "write"
       ELSE idx' = idx /\ pc' = "forward"
    /\ UNCHANGED <<ser, sensor_data, env_vars, cycle, origin, prev_forward, sink, exit_vars>>

\* time.sleep(DEVICE_PAUSE) and the next turn of the for loop.
main_device_pause ==
    /\ UNCHANGED call_vars
    /\ pc = "pause"
    /\ now' = now + DEVICE_PAUSE
    /\ log' = Append(log, Event("sleep", DEVICE_IDS[idx], DEVICE_PAUSE))
    /\ IF idx < Len(DEVICE_IDS)
       THEN idx' = idx + 1 /\ pc' = "write"
       ELSE idx' = idx /\ pc' = "forward"
    /\ UNCHANGED <<ser, sensor_data, env_vars, cycle, origin, prev_forward, sink, exit_vars>>

\* main_forward with the failure of the batch write not caught in
\* write_batch_to_influxdb: it reaches main's `except Exception`.
main_forward_unguarded ==
    /\ UNCHANGED call_vars
    /\ pc = "forward"
    /\ IF sensor_data # <<>>
       THEN \E sink_ok \in BOOLEAN :
              LET done == write_batch_to_influxdb(sensor_data, now, sink_ok)
              IN  /\ sink' = sink \o done.calls
                  /\ log' = Append(log, Event("forward", 0, Len(done.calls)))
                  /\ IF sink_ok
                     THEN pc' = "interval" /\ UNCHANGED <<ser, exit_vars>>
                     ELSE /\ pc' = "stopped"
                          /\ stopped_at' = pc
                          /\ outcome' = "error"
                          /\ exit_status' = <<0>>
                          /\ ser' = "closed"
       ELSE pc' = "interval" /\ UNCHANGED <<sink, log, ser, exit_vars>>
    /\ UNCHANGED <<idx, sensor_data, env_vars, cycle, now, origin, prev_forward>>

\* if sensor_data: write_batch_to_influxdb(sensor_data)
main_forward ==
    /\ UNCHANGED call_vars
    /\ pc = "forward"
    /\ IF sensor_data # <<>>
       THEN \E sink_ok \in BOOLEAN :
              LET done == write_batch_to_influxdb(sensor_data, now, sink_ok)
              IN  /\ sink' = sink \o done.calls
                  /\ log' = Append(log, Event("forward", 0, Len(done.calls)))
       ELSE UNCHANGED <<sink, log>>
    /\ pc' = "interval"
    /\ UNCHANGED <<ser, idx, sensor_data, env_vars, cycle, now, origin, prev_forward, exit_vars>>

\* main_interval waiting twice as long after a failed batch write.
main_interval_backoff ==
    /\ UNCHANGED call_vars
    /\ pc = "interval"
    /\ now' = IF sink # <<>> /\ ~ sink[Len(sink)].ok
              THEN now + 2 * POLLING_INTERVAL
              ELSE now + POLLING_INTERVAL
    /\ log' = Append(log, Event("sleep", 0, POLLING_INTERVAL))
    /\ pc' = "cycle"
    /\ UNCHANGED <<ser, idx, sensor_data, env_vars, cycle, origin, prev_forward, sink, exit_vars>>

\* time.sleep(POLLING_INTERVAL) and back to the top of the while loop.
main_interval ==
    /\ UNCHANGED call_vars
    /\ pc = "interval"
    /\ now' = now + POLLING_INTERVAL
    /\ log' = Append(log, Event("sleep", 0, POLLING_INTERVAL))
    /\ pc' = "cycle"
    /\ UNCHANGED <<ser, idx, sensor_data, env_vars, cycle, origin, prev_forward, sink, exit_vars>>

\* main_KeyboardInterrupt finishing an open exchange (reading the response)
\* before it stops.
main_KeyboardInterrupt_drain ==
    /\ UNCHANGED call_vars
    /\ pc # "stopped"
    /\ pc' = "stopped"
    /\ stopped_at' = pc
    /\ outcome' = "interrupted"
    /\ exit_status' = <<0>>
    /\ ser' = IF ser = "open" THEN "closed" ELSE ser
    /\ log' = IF pc \in {"settle", "read"}
              THEN Append(log, Event("read", DEVICE_IDS[idx], Min(RESPONSE_LEN, Len(rx))))
              ELSE log
    /\ UNCHANGED <<idx, sensor_data, env_vars, cycle, now, origin, prev_forward, sink>>

\* main_KeyboardInterrupt only cutting the inter-cycle sleep short: the loop
\* goes on and the interrupt takes effect later.
main_KeyboardInterrupt_skips_sleep ==
    /\ pc # "stopped"
    /\ IF pc = "interval"
       THEN /\ pc' = "cycle"
            /\ outcome' = "interrupted"
            /\ UNCHANGED <<ser, idx, sensor_data, env_vars, cycle, now, hist_vars,
                           sink, exit_status, stopped_at, call_vars>>
       ELSE main_except("interrupted")

\* KeyboardInterrupt is raised in main wherever it is when the signal comes.
main_KeyboardInterrupt ==
    /\ pc # "stopped"
    /\ main_except("interrupted")

\* ----------------------------------------------------------- the devices
\* The device just asked sends its whole answer while the program is in its
\* command pause or waiting in ser.read.  (A device that does not answer
\* takes no step.)
device_answer(d) ==
    /\ UNCHANGED call_vars
    /\ ser = "open"
    /\ pc \in {"settle", "read"}
    /\ d = DEVICE_IDS[idx]
    /\ Len(pending[d]) = RESPONSE_LEN
    /\ rx' = rx \o pending[d]
    /\ pending' = [pending EXCEPT ![d] = <<>>]
    /\ UNCHANGED <<pc, ser, idx, sensor_data, cycle, now, hist_vars, sink, exit_vars, faults>>

\* The device asked last sends only a piece of its answer, or sends after
\* ser.read has returned (late).
device_fault(d) ==
    /\ UNCHANGED call_vars
    /\ ser = "open"
    /\ faults < MaxFaults
    /\ pending[d] # <<>>
    /\ \E k \in {Min(Burst, Len(pending[d])), Len(pending[d])} :
         /\ ~ (k = RESPONSE_LEN /\ pc \in {"settle", "read"})
         /\ rx' = rx \o SubSeq(pending[d], 1, k)
         /\ pending' = [pending EXCEPT ![d] = SubSeq(pending[d], k + 1, Len(pending[d]))]
    /\ faults' = faults + 1
    /\ UNCHANGED <<pc, ser, idx, sensor_data, cycle, now, hist_vars, sink, exit_vars>>

Next ==
    \/ main_open
    \/ main_open_fails
    \/ main_cycle
    \/ read_modbus_data_write
    \/ read_modbus_data_write_fails
    \/ read_modbus_data_sleep
    \/ read_modbus_data_read
    \/ read_modbus_data_read_fails
    \/ main_device_pause
    \/ main_forward
    \/ main_interval
    \/ main_KeyboardInterrupt
    \/ \E d \in Devices : device_answer(d)
    \/ \E d \in Devices : device_fault(d)

Spec == Init /\ [][Next]_vars

\* ----------------------------------------------------- views of the log
EventsOf(op) == SelectSeq(log, LAMBDA e : e.op = op)
DevsOf(events) == [k \in 1..Len(events) |-> events[k].dev]
WriteDevs == DevsOf(EventsOf("write"))
ReadDevs == DevsOf(EventsOf("read"))
FullReadDevs == DevsOf(SelectSeq(log, LAMBDA e : e.op = "read" /\ e.n = RESPONSE_LEN))
ShortReadDevs == DevsOf(SelectSeq(log, LAMBDA e : e.op = "read" /\ e.n < RESPONSE_LEN))
ReadingDevs == [k \in 1..Len(sensor_data) |-> sensor_data[k].device_id]
IsPrefix(s, t) == Len(s) <= Len(t) /\ s = SubSeq(t, 1, Len(s))

\* The device pass of the cycle is over: main is at or past the forwarding.
PassDone == pc \in {"forward", "interval"}

\* C1: a short read (fewer than 9 bytes) of any devices does not abort the
\* cycle: every configured device is read, in list order, and the Cycle
\* handed to the forwarder holds exactly one Reading for each device whose
\* read returned 9 bytes and none for the others, in device-list order.
C1_PartialFailure ==
    /\ ReadingDevs = FullReadDevs
    /\ IsPrefix(ReadDevs, DEVICE_IDS)
    /\ PassDone => ReadDevs = DEVICE_IDS

\* The spec's scenario: device 2 of 4 returned 3 bytes, the Cycle is 1, 3, 4.
C1_Witness ==
    /\ pc = "forward"
    /\ [k \in 1..Len(EventsOf("read")) |-> EventsOf("read")[k].n] = <<9, 3, 9, 9>>
    /\ ReadingDevs = <<106, 125, 129>>

\* C2: every Reading in the Cycle with device id d carries register values
\* taken from bytes that device d sent in answer to the request written to
\* d in this same cycle.
C2_RequestResponsePairing ==
    \A k \in 1..Len(sensor_data) :
        \A j \in 4..7 :
            /\ origin[k][j].src = sensor_data[k].device_id
            /\ origin[k][j].cyc = cycle

\* C3: within one cycle exactly one request frame is written for each
\* configured device, in list order, whatever its read returns: no device is
\* asked or read twice and none is skipped.
C3_OneRequestPerDevice ==
    /\ IsPrefix(WriteDevs, DEVICE_IDS)
    /\ IsPrefix(ReadDevs, WriteDevs)
    /\ PassDone => WriteDevs = DEVICE_IDS
    /\ \A k \in 1..Len(log) : log[k].op = "write" => log[k].n = 8

\* A whole cycle of NoData: four requests were written all the same.
C3_Witness ==
    /\ pc = "interval"
    /\ ShortReadDevs = DEVICE_IDS
    /\ WriteDevs = DEVICE_IDS

\* Number of events of kind op among the first k events of the log.
CountBefore(op, k) == Len(SelectSeq(SubSeq(log, 1, k - 1), LAMBDA e : e.op = op))

\* C4: polling is strictly sequential: at most one exchange is in progress,
\* and a request is written only when the read of every request written
\* before it has returned.
C4_Sequential ==
    /\ Len(WriteDevs) - Len(ReadDevs) \in {0, 1}
    /\ \A k \in 1..Len(log) :
         log[k].op = "write" => CountBefore("write", k) = CountBefore("read", k)

\* The second exchange of a cycle is in progress after the first one ended
\* with a short read.
C4_Witness ==
    /\ pc = "read"
    /\ Len(WriteDevs) = 2
    /\ ShortReadDevs = <<DEVICE_IDS[1]>>

\* The last write_api.write of this cycle failed.
SinkFailed == sink # <<>> /\ ~ sink[Len(sink)].ok

\* Where main is or, once it has stopped, where it was when it stopped.
At == IF pc = "stopped" THEN stopped_at ELSE pc

\* An exchange is open: a request was written and its read has not returned.
ExchangeOpen == Len(WriteDevs) > Len(ReadDevs)

\* C5: a failed batch write does not stop the scheduler: it goes on to the
\* inter-cycle wait at once, waits POLLING_INTERVAL and no longer, starts
\* the next cycle at the first device, and that cycle polls every device.
C5_SinkFailureContained ==
    /\ [][ /\ (pc = "forward" /\ sink' # sink /\ ~ sink'[Len(sink')].ok)
                => (pc' = "interval" /\ now' = now /\ outcome' = "running")
           /\ (pc = "interval" /\ SinkFailed /\ pc' # pc /\ outcome' # "interrupted")
                => (pc' = "cycle" /\ now' = now + POLLING_INTERVAL)
           /\ (pc = "cycle" /\ SinkFailed /\ pc' # pc /\ outcome' # "interrupted")
                => (pc' = "write" /\ idx' = 1 /\ cycle' = cycle + 1 /\ sensor_data' = <<>>)
         ]_vars
    /\ [](prev_forward = "failed" /\ PassDone
            => WriteDevs = DEVICE_IDS /\ ReadDevs = DEVICE_IDS)

\* The cycle after a failed batch write has polled every device.
C5_Witness ==
    /\ prev_forward = "failed"
    /\ PassDone
    /\ WriteDevs = DEVICE_IDS

\* C6 as claimed: the scheduler stops only on transport-open failure or on
\* cancellation.
C6_StopsOnlyOnOpenFailureOrCancel ==
    pc = "stopped" => (outcome = "interrupted" \/ stopped_at = "open")

\* C6 as amended: the scheduler stops only on cancellation or on an error
\* raised by the transport when it is opened, written to or read from; a
\* failure of the batch write never stops it.
C6_StopCauses ==
    /\ pc = "stopped" =>
         \/ outcome = "interrupted"
         \/ outcome = "serial_error" /\ stopped_at \in {"open", "write", "read"}
    /\ (SinkFailed /\ At \in {"interval", "cycle"} /\ outcome # "interrupted")
         => pc # "stopped"

\* The transport raised during the read of an exchange and polling ended.
C6_Witness ==
    /\ pc = "stopped"
    /\ outcome = "serial_error"
    /\ stopped_at = "read"
    /\ Len(WriteDevs) > 1

\* C7 as claimed: when cancellation has stopped the scheduler, every request
\* written has had its matching read performed.
C7_NoCancelMidExchange ==
    (pc = "stopped" /\ outcome = "interrupted") => ~ ExchangeOpen

\* C7 as amended: cancellation takes effect where the interrupt arrives; the
\* response of a written request stays unread exactly when the interrupt
\* arrives during the command pause or during the read.
C7_CancelWhereItArrives ==
    (pc = "stopped" /\ outcome = "interrupted")
        => (ExchangeOpen <=> stopped_at \in {"settle", "read"})

\* Interrupted in the command pause: the request is out, no read follows.
C7_Witness ==
    /\ pc = "stopped"
    /\ outcome = "interrupted"
    /\ stopped_at = "settle"
    /\ ExchangeOpen

\* C8: an interrupt during the inter-cycle wait stops the scheduler at once,
\* with no new cycle; once stopped, nothing is written, read or sent to the
\* sink, and the cycle it interrupted had polled every device in full.
C8_CancelDuringWait ==
    /\ [][ /\ (pc = "interval" /\ outcome' = "interrupted")
                => (pc' = "stopped" /\ UNCHANGED <<log, sink, rx, cycle, sensor_data>>)
           /\ (pc = "stopped")
                => (pc' = "stopped" /\ UNCHANGED <<log, sink, rx, cycle>>)
         ]_vars
    /\ [](pc = "stopped" /\ stopped_at = "interval"
            => outcome = "interrupted" /\ WriteDevs = DEVICE_IDS /\ ReadDevs = DEVICE_IDS)

C8_Witness ==
    /\ pc = "stopped"
    /\ stopped_at = "interval"
    /\ outcome = "interrupted"

\* C9: when the transport cannot be opened the process ends with a non-zero
\* status, no device was polled and nothing was sent to the sink.
C9_OpenFailureExit ==
    (pc = "stopped" /\ stopped_at = "open" /\ outcome = "serial_error")
        => /\ exit_status # <<>> /\ exit_status[1] # 0
           /\ cycle = 0 /\ log = <<>> /\ sink = <<>>

\* C10: forwarding a non-empty Cycle of n Readings makes exactly one batch
\* call with 2n records: for each Reading in order a temperature and a
\* humidity record tagged with its device, all with the one timestamp taken
\* in that call.
C10_OneBatch ==
    /\ Len(sink) <= 1
    /\ (pc = "interval" /\ sensor_data # <<>>) => Len(sink) = 1
    /\ \A c \in 1..Len(sink) :
         LET rec == sink[c].record
         IN  /\ sensor_data # <<>>
             /\ Len(rec) = 2 * Len(sensor_data)
             /\ \A k \in 1..Len(sensor_data) :
                  LET r == sensor_data[k]
                      t == rec[2 * k - 1]
                      h == rec[2 * k]
                  IN  /\ t.measurement = "temperature"
                      /\ t.value = r.temperature
                      /\ t.device_id = "modbus_" \o ToString(r.device_id)
                      /\ h.measurement = "humidity"
                      /\ h.value = r.humidity
                      /\ h.device_id = "modbus_" \o ToString(r.device_id)
             /\ \A k \in 1..Len(rec) : rec[k].time = rec[1].time
             /\ pc = "interval" => rec[1].time = now

\* The spec's scenario: four Readings forwarded as one batch of 8 points.
C10_Witness ==
    /\ pc = "interval"
    /\ Len(sensor_data) = 4
    /\ Len(sink) = 1
    /\ Len(sink[1].record) = 8

\* ------------------------------------------- the functions called on their own
\* write_batch_to_influxdb, modbus_crc, the request frame and the decoding of
\* a response take arguments that main never passes them (an empty list,
\* bytes of any value).  SpecCalls calls each of them once on an argument
\* drawn from a bounded set: arg holds the call, res its result.
MaxBatch == 2

\* Readings as read_modbus_data returns them (line 121).
Readings ==
    { [device_id |-> d, temperature |-> Scaled(t, 10), humidity |-> Scaled(h, 100)] :
        d \in Devices, t \in {0, 235}, h \in {0, 4512} }

RECURSIVE SeqsUpTo(_, _)
SeqsUpTo(S, n) ==
    IF n = 0 THEN {<<>>}
    ELSE LET shorter == SeqsUpTo(S, n - 1)
         IN  shorter \cup { Append(q, x) : q \in { r \in shorter : Len(r) = n - 1 }, x \in S }

ForwardCalls ==
    { [fn |-> "write_batch_to_influxdb", data |-> data, timestamp |-> t, sink_ok |-> ok] :
        data \in SeqsUpTo(Readings, MaxBatch), t \in {0, POLLING_INTERVAL}, ok \in BOOLEAN }

MaxData == 3

\* The bytes the sequences are made of, and every value a byte can take.
SampleBytes == {0, 106, 255}
AllBytes == 0..255

\* The payload of the request to each device (line 94), and the ASCII
\* digits "123456789", whose CRC-16/Modbus is published as 0x4B37.
RequestPayloads ==
    { <<d, FUNCTION_CODE>> \o to_bytes_big(START_ADDR)
          \o to_bytes_big(NUM_REGISTERS) : d \in Devices }
CheckInput == <<49, 50, 51, 52, 53, 54, 55, 56, 57>>

CrcCalls ==
    { [fn |-> "modbus_crc", data |-> data] :
        data \in SeqsUpTo(SampleBytes, MaxData) \cup RequestPayloads \cup {CheckInput} }

\* Device addresses 0..255 and block addresses and counts 0..65535: the ends
\* of the ranges, values on both sides of a byte boundary, the configured ones.
FrameCalls ==
    { [fn |-> "build_request", device_id |-> d, start_addr |-> a, num_registers |-> n] :
        d \in {0, 1, 255} \cup Devices,
        a \in {0, 255, 256, START_ADDR, 65535},
        n \in {0, NUM_REGISTERS, 255, 256, 65535} }

\* What ser.read(9) can return: up to 9 bytes.  The responses are the answer
\* of a device, that answer with one byte replaced, 9 equal bytes, and every
\* prefix of these; the polled device need not be the one that answered.
Untagged(d) == Vals(device_response(d, device_regs(d, 1), 1))
Replaced(bytes, k, b) == [bytes EXCEPT ![k] = b]
FullResponses ==
    { Untagged(d) : d \in Devices }
    \cup { Replaced(Untagged(d), k, b) : d \in Devices, k \in 1..RESPONSE_LEN, b \in SampleBytes }
    \cup { [k \in 1..RESPONSE_LEN |-> b] : b \in SampleBytes }
Responses == { SubSeq(r, 1, n) : r \in FullResponses, n \in 0..RESPONSE_LEN }
Tagged(bytes) == [k \in 1..Len(bytes) |-> [val |-> bytes[k], src |-> 0, cyc |-> 0]]

DecodeCalls ==
    { [fn |-> "decode_response", device_id |-> d, response |-> r] :
        d \in Devices, r \in Responses }

InitCalls ==
    /\ pc = "call"
    /\ ser = "unopened"
    /\ idx = 1
    /\ sensor_data = <<>>
    /\ rx = <<>>
    /\ pending = [d \in Devices |-> <<>>]
    /\ cycle = 0
    /\ now = 0
    /\ log = <<>>
    /\ origin = <<>>
    /\ prev_forward = "none"
    /\ sink = <<>>
    /\ outcome = "running"
    /\ exit_status = <<>>
    /\ stopped_at = "none"
    /\ faults = 0
    /\ res = <<>>
    /\ \/ arg \in ForwardCalls
       \/ arg \in CrcCalls
       \/ arg \in FrameCalls
       \/ arg \in DecodeCalls

Calling(fn) == pc = "call" /\ arg.fn = fn /\ res = <<>>

Returned(fn) == pc = "call" /\ arg.fn = fn /\ res # <<>>

main_vars == <<pc, ser, idx, sensor_data, env_vars, cycle, now, hist_vars,
               sink, exit_vars>>

call_write_batch_to_influxdb ==
    /\ Calling("write_batch_to_influxdb")
    /\ res' = << write_batch_to_influxdb(arg.data, arg.timestamp, arg.sink_ok) >>
    /\ UNCHANGED <<arg, main_vars>>

call_modbus_crc ==
    /\ Calling("modbus_crc")
    /\ res' = << modbus_crc(arg.data) >>
    /\ UNCHANGED <<arg, main_vars>>

call_build_request ==
    /\ Calling("build_request")
    /\ res' = << encode_request(arg.device_id, FUNCTION_CODE,
                                arg.start_addr, arg.num_registers) >>
    /\ UNCHANGED <<arg, main_vars>>

call_decode_response ==
    /\ Calling("decode_response")
    /\ res' = << decode_response(arg.device_id, Tagged(arg.response)) >>
    /\ UNCHANGED <<arg, main_vars>>

NextCalls ==
    \/ call_decode_response
    \/ call_build_request
    \/ call_modbus_crc
    \/ call_write_batch_to_influxdb

SpecCalls == InitCalls /\ [][NextCalls]_vars

\* C11 (as the specification words it): write_batch_to_influxdb called with
\* an empty list writes nothing to the sink and prints nothing.
C11_EmptyForwardSilent ==
    (Returned("write_batch_to_influxdb") /\ arg.data = <<>>)
        => (res[1].calls = <<>> /\ res[1].printed = <<>>)

\* C11 (amended): write_batch_to_influxdb called with an empty list writes
\* nothing to the sink and prints the one line "No sensor data to write to
\* InfluxDB"; it prints no success and no failure line.
C11_EmptyForwardNoSinkCall ==
    (Returned("write_batch_to_influxdb") /\ arg.data = <<>>)
        => /\ res[1].calls = <<>>
           /\ res[1].printed = <<"No sensor data to write to InfluxDB">>

C11_Witness ==
    /\ Returned("write_batch_to_influxdb")
    /\ arg.data = <<>>
    /\ res[1].calls = <<>>

\* ------------------------------------------------------------------- C12
\* CRC-16/Modbus as its definition gives it, on a register of 16 bits
\* (bit 0 the lowest): the input goes in bit by bit, lowest bit of each byte
\* first; at each bit the register moves one place down and, when the bit
\* that left it differs from the input bit, x^16 + x^15 + x^2 + 1 (reflected:
\* bits 15, 13 and 0) is added to it, one bit of the polynomial at a time.
RefBit(n, i) == (n \div (2 ^ i)) % 2

RefToggle(reg, i) == IF RefBit(reg, i) = 1 THEN reg - 2 ^ i ELSE reg + 2 ^ i
RefAddPoly(reg) == RefToggle(RefToggle(RefToggle(reg, 0), 13), 15)

\* The register after bits i..7 of byte have gone in.
RECURSIVE RefBits(_, _, _)
RefBits(reg, byte, i) ==
    IF i = 8 THEN reg
    ELSE IF RefBit(reg, 0) # RefBit(byte, i)
         THEN RefBits(RefAddPoly(reg \div 2), byte, i + 1)
         ELSE RefBits(reg \div 2, byte, i + 1)

\* The register after the bytes of st.data have gone in.
RECURSIVE RefBytes(_)
RefBytes(st) ==
    IF st.data = <<>> THEN st.reg
    ELSE RefBytes([reg |-> RefBits(st.reg, Head(st.data), 0), data |-> Tail(st.data)])

RefCrc(data) ==
    LET v == RefBytes([reg |-> 2 ^ 16 - 1, data |-> data])
    IN  <<v % 256, v \div 256>>

\* C12: modbus_crc returns, for every byte sequence, the CRC-16/Modbus of
\* the sequence as two bytes, low byte first: FF FF for the empty sequence,
\* 37 4B for "123456789"; and the accumulator is within 16 bits after every
\* byte.
C12_ChecksumIsCrc16Modbus ==
    Returned("modbus_crc") =>
        /\ res[1] = RefCrc(arg.data)
        /\ Len(res[1]) = 2
        /\ \A k \in 0..Len(arg.data) :
               crc_bytes(65535, SubSeq(arg.data, 1, k)) \in 0..65535
        /\ arg.data = <<>> => res[1] = <<255, 255>>
        /\ arg.data = CheckInput => res[1] = <<55, 75>>

C12_Witness ==
    /\ Returned("modbus_crc")
    /\ arg.data = CheckInput
    /\ res[1] = <<55, 75>>

\* ------------------------------------------------------------------- C13
\* C13: the request frame for device address d, block address a and count n
\* has 8 bytes, each in 0..255: d, the function code, a and n high byte
\* first (so that reading them back gives d, a and n), and the checksum of
\* the first six bytes, low byte first.
C13_FrameRoundTrip ==
    Returned("build_request") =>
        LET frame == res[1]
        IN  /\ Len(frame) = 6 + 2
            /\ \A k \in 1..Len(frame) : frame[k] \in AllBytes
            /\ frame[1] = arg.device_id
            /\ frame[2] = FUNCTION_CODE
            /\ 256 * frame[3] + frame[4] = arg.start_addr
            /\ 256 * frame[5] + frame[6] = arg.num_registers
            /\ <<frame[7], frame[8]>> = RefCrc(SubSeq(frame, 1, 6))

C13_Witness ==
    /\ Returned("build_request")
    /\ arg.device_id = 255 /\ arg.start_addr = 256 /\ arg.num_registers = 65535
    /\ SubSeq(res[1], 1, 6) = <<255, 4, 1, 0, 255, 255>>

\* ------------------------------------------------------------------- C14
\* C14: a response of 0 to 8 bytes is decoded to no Reading; a response of 9
\* bytes is decoded to one Reading whose raw temperature is 256 * byte 3 +
\* byte 4 and whose raw humidity is 256 * byte 5 + byte 6 (bytes counted
\* from 0).
C14_DecodeBoundary ==
    Returned("decode_response") =>
        LET b == arg.response
        IN  IF Len(b) < 9
            THEN res[1] = <<>>
            ELSE /\ Len(res[1]) = 1
                 /\ res[1][1].temperature = [num |-> 256 * b[4] + b[5], den |-> 10]
                 /\ res[1][1].humidity = [num |-> 256 * b[6] + b[7], den |-> 100]

C14_Witness ==
    /\ Returned("decode_response")
    /\ arg.response = Untagged(106)
    /\ res[1][1].temperature.num = device_regs(106, 1)[1]
    /\ res[1][1].humidity.num = device_regs(106, 1)[2]

\* ------------------------------------------------------------------- C15
\* C15: the checksum of a byte sequence differs from the checksum of every
\* sequence of the same length that differs from it in exactly one byte,
\* whatever the position and the new value of that byte.
C15_SingleByteChangeDetected ==
    Returned("modbus_crc") =>
        \A k \in 1..Len(arg.data) : \A b \in AllBytes \ {arg.data[k]} :
            modbus_crc(Replaced(arg.data, k, b)) # res[1]

C15_Witness ==
    /\ Returned("modbus_crc")
    /\ Len(arg.data) = MaxData
    /\ arg.data[2] = 106
    /\ modbus_crc(Replaced(arg.data, 2, 107)) # res[1]

\* ------------------------------------------------------------------- C18
\* What a response to a poll of device_id must look like to be the answer to
\* the request: address, function code, byte count and trailing CRC.
WellFormed(device_id, b) ==
    /\ b[1] = device_id
    /\ b[2] = FUNCTION_CODE
    /\ b[3] = 2 * NUM_REGISTERS
    /\ <<b[8], b[9]>> = RefCrc(SubSeq(b, 1, 7))

\* C18: a 9-byte response whose address, function code, byte count or CRC
\* is wrong is decoded all the same, to a Reading for the polled device with
\* the values found at bytes 3..6.
C18_UnvalidatedFrameAccepted ==
    (/\ Returned("decode_response")
     /\ Len(arg.response) = RESPONSE_LEN
     /\ ~ WellFormed(arg.device_id, arg.response))
        => res[1] = << [device_id   |-> arg.device_id,
                        temperature |-> [num |-> 256 * arg.response[4] + arg.response[5],
                                         den |-> 10],
                        humidity    |-> [num |-> 256 * arg.response[6] + arg.response[7],
                                         den |-> 100]] >>

\* The answer of device 106 with the low byte of its temperature changed on
\* the line (CRC no longer matching) gives a Reading.
C18_Witness ==
    /\ Returned("decode_response")
    /\ arg.device_id = 106
    /\ arg.response = Replaced(Untagged(106), 5, 255)
    /\ <<arg.response[8], arg.response[9]>> # RefCrc(SubSeq(arg.response, 1, 7))
    /\ Len(res[1]) = 1
    /\ res[1][1].temperature.num = 256 * Untagged(106)[4] + 255

\* ------------------------------------------------------------------- C16
\* A step that writes to or reads from the port: it adds a write or a read
\* event to the log, or it is the write or read that raised.
PortAccess ==
    \/ /\ log' # log
       /\ log' # <<>>
       /\ log'[Len(log')].op \in {"write", "read"}
    \/ /\ pc \in {"write", "read"}
       /\ pc' = "stopped"
       /\ outcome' = "serial_error"

\* C16: the port is opened once, at startup, and never again; once main has
\* stopped, by an interrupt or by an error, the port is not open: it is
\* closed if it had been opened, and it was never opened if main stopped
\* at the opening; every write and read is done on the open port, so none
\* after it was closed.
C16_PortReleased ==
    /\ [][ /\ (ser' = "open" /\ ser # "open") => (ser = "unopened" /\ pc = "open")
           /\ ser = "closed" => ser' = "closed"
           /\ PortAccess => ser = "open" ]_vars
    /\ [](pc = "stopped" =>
             /\ ser # "open"
             /\ ser = "closed" <=> stopped_at # "open")

C16_Witness ==
    /\ pc = "stopped"
    /\ outcome = "serial_error"
    /\ stopped_at = "read"
    /\ ser = "closed"

\* ------------------------------------------------------------------- C17
\* The event the log of a cycle holds at position j of the pass over the
\* devices (position 1 is the start of the cycle): four events per device.
PollEvent(j, e) ==
    LET k == ((j - 2) \div 4) + 1
        step == (j - 2) % 4
    IN  /\ e.dev = DEVICE_IDS[k]
        /\ CASE step = 0 -> e.op = "write"
             [] step = 1 -> e.op = "sleep" /\ e.n = COMMAND_PAUSE
             [] step = 2 -> e.op = "read" /\ e.n \in 0..RESPONSE_LEN
             [] step = 3 -> e.op = "sleep" /\ e.n = DEVICE_PAUSE

PassLen == 1 + 4 * Len(DEVICE_IDS)

ReadingOf(k) ==
    [device_id   |-> FullReadDevs[k],
     temperature |-> Scaled(256 * origin[k][4].val + origin[k][5].val, 10),
     humidity    |-> Scaled(256 * origin[k][6].val + origin[k][7].val, 100)]

\* C19: the list of Readings is empty when a cycle starts polling, also
\* after a cycle whose batch write failed; at every moment it holds exactly
\* the Readings decoded from the 9-byte responses read in the current cycle;
\* the cycle makes at most one batch call, and the records of that call are
\* those of the current cycle's Readings and of no other.
C19_NothingRetained ==
    /\ (pc = "write" /\ idx = 1) => sensor_data = <<>>
    /\ Len(origin) = Len(FullReadDevs)
    /\ sensor_data = [k \in 1..Len(origin) |-> ReadingOf(k)]
    /\ Len(sink) <= 1
    /\ \A c \in 1..Len(sink) :
         /\ Len(sink[c].record) = 2 * Len(origin)
         /\ \A k \in 1..Len(origin) :
              /\ sink[c].record[2 * k - 1].value = ReadingOf(k).temperature
              /\ sink[c].record[2 * k].value = ReadingOf(k).humidity

\* The cycle after a failed batch write has sent a batch of its own.
C19_Witness ==
    /\ cycle = 2
    /\ prev_forward = "failed"
    /\ pc = "interval"
    /\ Len(sink) = 1
    /\ Len(origin) >= 1
    /\ Len(sink[1].record) = 2 * Len(origin)

\* ------------------------------------------------------------------- C20
\* The while loop has no last iteration.  Iterations after the MaxCycles-th
\* are counted as the MaxCycles-th: the step is main_cycle with the counter
\* left where it is.
main_cycle_again ==
    /\ UNCHANGED call_vars
    /\ pc = "cycle"
    /\ cycle = MaxCycles
    /\ sensor_data' = <<>>
    /\ origin' = <<>>
    /\ log' = << Event("cycle", 0, cycle) >>
    /\ prev_forward' = IF sink = <<>> THEN "none"
                       ELSE IF sink[Len(sink)].ok THEN "ok" ELSE "failed"
    /\ sink' = <<>>
    /\ now' = 0
    /\ idx' = 1
    /\ pc' = "write"
    /\ UNCHANGED <<ser, cycle, env_vars, exit_vars>>

\* The steps of main when no KeyboardInterrupt and no SerialException is
\* raised.
MainStep ==
    \/ main_open
    \/ main_cycle
    \/ main_cycle_again
    \/ read_modbus_data_write
    \/ read_modbus_data_sleep
    \/ read_modbus_data_read
    \/ main_device_pause
    \/ main_forward
    \/ main_interval

NextLive ==
    \/ MainStep
    \/ \E d \in Devices : device_answer(d)
    \/ \E d \in Devices : device_fault(d)

\* main is one thread that is never held up: each time.sleep returns, ser.write
\* returns, ser.read returns after TIMEOUT at the latest, write_api.write
\* returns or raises.  The devices are under no obligation to answer.
SpecLive == Init /\ [][NextLive]_vars /\ WF_vars(MainStep)

\* C20: with no KeyboardInterrupt and no SerialException, every exchange
\* that was begun comes to its end, every cycle comes to its interval wait
\* and a new cycle begins after it, and every device of DEVICE_IDS is polled
\* again and again, whatever the devices answer and whatever the sink
\* answers.
C20_PollsForever ==
    /\ (pc \in {"write", "settle", "read"}) ~> (pc = "pause")
    /\ (pc = "pause" /\ idx = Len(DEVICE_IDS)) ~> (pc = "interval")
    /\ (pc = "interval") ~> (pc = "write" /\ idx = 1 /\ sensor_data = <<>>)
    /\ \A k \in 1..Len(DEVICE_IDS) : []<>(pc = "settle" /\ idx = k)

\* The last device is polled in a cycle that follows a cycle in which no
\* device gave a Reading (and the forwarder was not called).
C20_Witness ==
    /\ cycle = MaxCycles
    /\ prev_forward = "none"
    /\ pc = "settle"
    /\ idx = Len(DEVICE_IDS)
    /\ log[1] = Event("cycle", 0, MaxCycles)
====
